---- MODULE Spec2Model ----
(***************************************************************************)
(* Model of handler.js: the API Gateway router (handler) and its two leaf  *)
(* operations getItems and createItem, together with the DynamoDB table    *)
(* they scan and put to.  Every await in the source is a point where other *)
(* invocations may run, so each operation is split at its awaits.          *)
(***************************************************************************)
EXTENDS Integers, Sequences, FiniteSets, TLC

(* ------------------------------ bounds ---------------------------------- *)

\* number of invocations that may be in flight together
NumProcs == 2

\* the wall clock runs from 0 to MaxClock milliseconds
MaxClock == 1

Procs == 1..NumProcs

(* ---------------------- JavaScript values ------------------------------- *)
\* A value is a tagged tuple, so that values of different JavaScript types
\* are never confused and a property that is undefined differs from one
\* that is null, false, 0 or "".

Undefined == <<"undefined">>

Null == <<"null">>

Bool(b) == <<"bool", b>>

Num(n) == <<"num", n>>

Str(s) == <<"str", s>>

Arr(s) == <<"arr", s>>

Obj(f) == <<"obj", f>>

\* the string whose characters are the JSON serialisation of v
JsonText(v) == <<"json", v>>

\* a non-empty string that is not JSON
BadText == <<"text", "{oops">>

\* the string Date.prototype.toISOString makes of the instant t
ISOString(t) == <<"iso", t>>

\* the template string `${d}ms`
Millis(d) == <<"ms", d>>

EmptyObject == Obj(<<>>)

\* JavaScript truthiness (the operand of !, || and &&)
Truthy(v) ==
  CASE v[1] = "undefined" -> FALSE
    [] v[1] = "null" -> FALSE
    [] v[1] = "bool" -> v[2]
    [] v[1] = "num" -> v[2] # 0
    [] v[1] = "str" -> v[2] # ""
    [] OTHER -> TRUE

\* a || b
Or(a, b) == IF Truthy(a) THEN a ELSE b

\* what a destructuring pattern or a property read gives for field f of v
Field(v, f) ==
  IF v[1] = "obj" /\ f \in DOMAIN v[2] THEN v[2][f] ELSE Undefined

\* JSON.stringify of an object literal: properties that are undefined are
\* left out, and the result is a string
JSONStringify(o) ==
  JsonText(Obj([f \in {g \in DOMAIN o : o[g] # Undefined} |-> o[f]]))

SyntaxErrorMessage == Str("Unexpected token o in JSON at position 1")

TypeErrorMessage == Str("Cannot destructure property 'id' of 'body' as it is null.")

\* JSON.parse(event.body || '{}') but keeping the parse error
ParseSwallow(body) ==
  LET text == Or(body, JsonText(EmptyObject))
  IN IF text[1] = "json" THEN [ok |-> TRUE, value |-> text[2]]
     ELSE [ok |-> TRUE, value |-> EmptyObject]

\* JSON.parse(event.body || '{}')
ParseBody(body) ==
  LET text == Or(body, JsonText(EmptyObject))
  IN IF text[1] = "json" THEN [ok |-> TRUE, value |-> text[2]]
     ELSE [ok |-> FALSE, message |-> SyntaxErrorMessage]

(* --------------------------- responses ---------------------------------- *)

Headers ==
  [ContentType |-> "application/json", AccessControlAllowOrigin |-> "*"]

NoResult == [kind |-> "none"]

Response(status, bodyObject) ==
  [kind |-> "response", statusCode |-> status, headers |-> Headers,
   body |-> JSONStringify(bodyObject)]

\* a rejected promise: the failure propagates to the hosting runtime
Thrown(msg) == [kind |-> "throw", message |-> msg]

SimulatedMessage == Str("Simulated server error for testing")

\* error.message.includes('Simulated server error')
IncludesSimulated(msg) == msg = SimulatedMessage

Scenarios == {"success", "client_error", "server_error"}

\* values of Math.random(), in thousandths: 0 and every threshold the code
\* compares a draw with, so that each interval between thresholds is drawn
RandomDraws == {0, 500, 600, 700, 850, 900}

\* the draws that become a delay: the least and the greatest
DelayDraws == {0, 999}

\* the delay draws of the concurrent specification
ConcDelayDraws == {0}

(* ----------------------------- router ----------------------------------- *)

ResolveMethod(ev) == Or(ev.httpMethod, ev.rcMethod)

ResolvePath(ev) == Or(ev.path, ev.rcPath)

RouteAnyMethod(method, path) ==
  IF path = Str("/items") /\ method # Str("POST") THEN "getItems"
  ELSE IF method = Str("POST") /\ path = Str("/items") THEN "createItem"
  ELSE "none"

Route(method, path) ==
  IF method = Str("GET") /\ path = Str("/items") THEN "getItems"
  ELSE IF method = Str("POST") /\ path = Str("/items") THEN "createItem"
  ELSE "none"

NotFoundBodyNoLabel(path) ==
  [success |-> Bool(FALSE), path |-> path]

NotFoundBody(path) ==
  [success |-> Bool(FALSE), error |-> Str("Not found"), path |-> path]

(* ---------------------------- getItems ---------------------------------- *)

\* the scan may return at most this many records
ScanLimit == 100

ScanCommand == [op |-> "Scan", Limit |-> ScanLimit]

\* random < 0.7 ? 'success' : random < 0.9 ? 'client_error' : 'server_error'
GetItemsScenario(r) ==
  IF r < 700 THEN "success" ELSE IF r < 900 THEN "client_error" ELSE "server_error"

\* Math.floor(Math.random() * 385) + 15, or Math.floor(Math.random() * 145) + 5
GetItemsDelay(sc, r) ==
  IF sc = "success" THEN ((r * 385) \div 1000) + 15 ELSE ((r * 145) \div 1000) + 5

\* Math.random() < 0.5 ? 400 : 404
GetItemsErrorType(r) == IF r < 500 THEN 400 ELSE 404

GetItemsClientError(errorType, d) ==
  Response(errorType,
    [success |-> Bool(FALSE),
     error |-> IF errorType = 400 THEN Str("Bad Request") ELSE Str("Not Found"),
     message |-> <<"simulated", errorType>>,
     executionTime |-> Millis(d)])

CountWrongProperty(items) == Num(0)

\* result.Items?.length || 0
CountOf(items) == IF items[1] = "arr" THEN Num(Len(items[2])) ELSE Num(0)

GetItemsSuccess(items, d) ==
  Response(200,
    [success |-> Bool(TRUE),
     data |-> Or(items, Arr(<<>>)),
     count |-> CountOf(items),
     executionTime |-> Millis(d)])

\* the catch block of getItems
GetItemsCatch(msg, d) ==
  IF Truthy(msg) /\ IncludesSimulated(msg) THEN Thrown(msg)
  ELSE Response(500,
         [success |-> Bool(FALSE), error |-> Str("Failed to get items"),
          message |-> msg, executionTime |-> Millis(d)])

(* --------------------------- createItem --------------------------------- *)

\* random < 0.6 ? 'success' : random < 0.85 ? 'client_error' : 'server_error'
CreateItemScenario(r) ==
  IF r < 600 THEN "success" ELSE IF r < 850 THEN "client_error" ELSE "server_error"

\* Math.floor(Math.random() * 480) + 20, or Math.floor(Math.random() * 190) + 10
CreateItemDelay(sc, r) ==
  IF sc = "success" THEN ((r * 480) \div 1000) + 20 ELSE ((r * 190) \div 1000) + 10

\* Math.random() < 0.5 ? 400 : 422
CreateItemErrorType(r) == IF r < 500 THEN 400 ELSE 422

CreateItemClientError(errorType, d) ==
  Response(errorType,
    [success |-> Bool(FALSE),
     error |-> IF errorType = 400 THEN Str("Bad Request")
               ELSE Str("Unprocessable Entity"),
     message |-> IF errorType = 400
                 THEN Str("Missing required fields: id and name are required")
                 ELSE Str("Validation failed: Invalid data format"),
     executionTime |-> Millis(d)])

MissingOnlyId(id, name) == ~Truthy(id)

MissingBoth(id, name) == ~Truthy(id) /\ ~Truthy(name)

\* !id || !name
MissingRequired(id, name) == ~Truthy(id) \/ ~Truthy(name)

ValidationError(d) ==
  Response(400,
    [success |-> Bool(FALSE),
     error |-> Str("Missing required fields: id and name are required"),
     executionTime |-> Millis(d)])

NewItemPriceOne(id, name, description, price, t1, t2) ==
  [id |-> id, name |-> name,
   description |-> Or(description, Str("")),
   price |-> Or(price, Num(1)),
   createdAt |-> ISOString(t1), updatedAt |-> ISOString(t2)]

\* the item literal; t1 and t2 are what the two new Date() calls read
NewItem(id, name, description, price, t1, t2) ==
  [id |-> id, name |-> name,
   description |-> Or(description, Str("")),
   price |-> Or(price, Num(0)),
   createdAt |-> ISOString(t1), updatedAt |-> ISOString(t2)]

PutIfAbsent(it) ==
  [op |-> "Put", Item |-> it, Condition |-> "attribute_not_exists(id)"]

PutCommand(it) == [op |-> "Put", Item |-> it, Condition |-> "none"]

CreateItemSuccess(it, d) ==
  Response(201,
    [success |-> Bool(TRUE), data |-> Obj(it),
     message |-> Str("Item created successfully"),
     executionTime |-> Millis(d)])

\* the catch block of createItem
CreateItemCatch(msg, d) ==
  Response(500,
    [success |-> Bool(FALSE), error |-> Str("Failed to create item"),
     message |-> msg, executionTime |-> Millis(d)])

\* createItem from the end of the delay to its first return, throw or await:
\* either a result, or the command it sends
CreateItemBody(ev, sc, errorType, d, t1, t2) ==
  LET parsed == ParseBody(ev.body)
  IN IF ~parsed.ok THEN [result |-> CreateItemCatch(parsed.message, d)]
     ELSE IF parsed.value[1] \in {"null", "undefined"}
       THEN [result |-> CreateItemCatch(TypeErrorMessage, d)]
     ELSE IF sc = "client_error"
       THEN [result |-> CreateItemClientError(errorType, d)]
     ELSE IF sc = "server_error"
       THEN [result |-> CreateItemCatch(SimulatedMessage, d)]
     ELSE LET id == Field(parsed.value, "id")
              name == Field(parsed.value, "name")
              description == Field(parsed.value, "description")
              price == Field(parsed.value, "price")
          IN IF MissingRequired(id, name)
             THEN [result |-> ValidationError(d)]
             ELSE [send |-> PutCommand(NewItem(id, name, description, price, t1, t2))]

(* ------------------------- the DynamoDB table --------------------------- *)

StoreErrors == {Str("Requested resource not found")}

ConditionFailed == Str("The conditional request failed")

HasId(table, id) == \E k \in DOMAIN table : table[k].id = id

\* the table after a put: id is the primary key, so a record that has the
\* id of the new one is replaced by it
StorePut(table, it) ==
  IF HasId(table, it.id)
  THEN [k \in DOMAIN table |-> IF table[k].id = it.id THEN it ELSE table[k]]
  ELSE Append(table, it)

\* does the table accept the put
PutAccepted(table, cmd) ==
  cmd.Condition = "none" \/ ~HasId(table, cmd.Item.id)

\* what a scan can return as Items
ScanResults(table, cmd) ==
  LET n == IF Len(table) < cmd.Limit THEN Len(table) ELSE cmd.Limit
      page == SubSeq(table, 1, n)
  IN {Arr(page)} \cup (IF n = 0 THEN {Undefined} ELSE {})

(* ------------------------------ inputs ---------------------------------- *)

Event(m, p, rm, rp, b) ==
  [httpMethod |-> m, path |-> p, rcMethod |-> rm, rcPath |-> rp, body |-> b]

NoEvent == Event(Undefined, Undefined, Undefined, Undefined, Undefined)

\* an object literal with the properties of r that are not undefined
Literal(r) == Obj([f \in {g \in DOMAIN r : r[g] # Undefined} |-> r[f]])

WidgetText ==
  JsonText(Literal([id |-> Str("1"), name |-> Str("Widget"),
                    description |-> Undefined, price |-> Num(9)]))

\* Undefined stands for a property the body does not have
BodyObjects ==
  {Literal([id |-> i, name |-> n, description |-> ds, price |-> pr]) :
     i \in {Undefined, Str(""), Str("1")},
     n \in {Undefined, Null, Str("Widget")},
     ds \in {Undefined, Null, Bool(FALSE), Str(""), Str("Test Description")},
     pr \in {Undefined, Null, Num(0), Num(9)}}

Bodies ==
  {Undefined, Str(""), Str(" "), BadText, JsonText(Null), JsonText(Num(5))}
    \cup {JsonText(o) : o \in BodyObjects}

HandlerEvents ==
  {Event(m, p, rm, rp, b) :
     m \in {Undefined, Str("GET"), Str("POST"), Str("DELETE")},
     p \in {Undefined, Str("/items"), Str("/items/"), Str("/other")},
     rm \in {Undefined, Str("GET"), Str("POST")},
     rp \in {Undefined, Str("/items")},
     b \in {Undefined, WidgetText}}

DirectEvents == {Event(Undefined, Undefined, Undefined, Undefined, b) : b \in Bodies}

ListEvents == {NoEvent}

ExistingItem(id, name) ==
  [id |-> Str(id), name |-> Str(name), description |-> Str(""),
   price |-> Num(0), createdAt |-> ISOString(0), updatedAt |-> ISOString(0)]

InitStores ==
  {<<>>, <<ExistingItem("1", "Old")>>,
   <<ExistingItem("2", "Other"), ExistingItem("1", "Old")>>}

\* the inputs of the concurrent specification
ConcBodies ==
  {JsonText(Literal([id |-> Str("1"), name |-> n])) : n \in {Str("A"), Str("B")}}
    \cup {JsonText(Literal([id |-> Str("1"), name |-> Undefined]))}

ConcHandlerEvents ==
  {Event(Str("POST"), Str("/items"), Undefined, Undefined,
         JsonText(Literal([id |-> Str("2"), name |-> Str("A")]))),
   Event(Str("DELETE"), Str("/items"), Undefined, Undefined, Undefined)}

ConcDirectEvents ==
  {Event(Undefined, Undefined, Undefined, Undefined, b) : b \in ConcBodies}

(* ------------------------------- state ---------------------------------- *)

VARIABLES
  pc,        \* where each invocation is: idle, delay, scan, put, done
  entry,     \* the exported function the invocation entered through
  event,     \* its event
  op,        \* the leaf operation it runs: getItems, createItem or none
  scenario,  \* the scenario drawn by the leaf operation
  delay,     \* the delay drawn by the leaf operation
  sent,      \* the commands it has sent to the table, in order
  result,    \* what its promise settles to
  store,     \* the records of the table
  applied,   \* the items of the puts the table has applied, in order
  clock      \* the wall clock

vars == <<pc, entry, event, op, scenario, delay, sent, result, store, applied, clock>>

InitCommon ==
  /\ pc = [i \in Procs |-> "idle"]
  /\ entry = [i \in Procs |-> "none"]
  /\ event = [i \in Procs |-> NoEvent]
  /\ op = [i \in Procs |-> "none"]
  /\ scenario = [i \in Procs |-> "none"]
  /\ delay = [i \in Procs |-> 0]
  /\ sent = [i \in Procs |-> <<>>]
  /\ result = [i \in Procs |-> NoResult]
  /\ applied = <<>>
  /\ clock = 0

Init == InitCommon /\ store \in InitStores

InitConc == InitCommon /\ store = <<>>

Settle(i, r) ==
  /\ result' = [result EXCEPT ![i] = r]
  /\ pc' = [pc EXCEPT ![i] = "done"]

\* a leaf operation up to its await of randomDelay
StartLeaf(i, leaf, delayDraws) ==
  \E random \in RandomDraws, r \in delayDraws :
    LET sc == IF leaf = "getItems" THEN GetItemsScenario(random)
              ELSE CreateItemScenario(random)
        d == IF leaf = "getItems" THEN GetItemsDelay(sc, r)
             ELSE CreateItemDelay(sc, r)
    IN /\ op' = [op EXCEPT ![i] = leaf]
       /\ scenario' = [scenario EXCEPT ![i] = sc]
       /\ delay' = [delay EXCEPT ![i] = d]
       /\ pc' = [pc EXCEPT ![i] = "delay"]
       /\ UNCHANGED result

\* exports.handler
Handler(i, events, delayDraws) ==
  /\ pc[i] = "idle"
  /\ \E ev \in events :
       LET httpMethod == ResolveMethod(ev)
           path == ResolvePath(ev)
           leaf == Route(httpMethod, path)
       IN /\ entry' = [entry EXCEPT ![i] = "handler"]
          /\ event' = [event EXCEPT ![i] = ev]
          /\ IF leaf = "none"
             THEN /\ Settle(i, Response(404, NotFoundBody(path)))
                  /\ UNCHANGED <<op, scenario, delay>>
             ELSE StartLeaf(i, leaf, delayDraws)
  /\ UNCHANGED <<sent, store, applied, clock>>

\* exports.getItems called directly
GetItems(i, events, delayDraws) ==
  /\ pc[i] = "idle"
  /\ \E ev \in events :
       /\ entry' = [entry EXCEPT ![i] = "getItems"]
       /\ event' = [event EXCEPT ![i] = ev]
       /\ StartLeaf(i, "getItems", delayDraws)
  /\ UNCHANGED <<sent, store, applied, clock>>

\* exports.createItem called directly
CreateItem(i, events, delayDraws) ==
  /\ pc[i] = "idle"
  /\ \E ev \in events :
       /\ entry' = [entry EXCEPT ![i] = "createItem"]
       /\ event' = [event EXCEPT ![i] = ev]
       /\ StartLeaf(i, "createItem", delayDraws)
  /\ UNCHANGED <<sent, store, applied, clock>>

\* getItems from the end of the delay to its return, throw or scan
GetItemsResume(i) ==
  /\ pc[i] = "delay" /\ op[i] = "getItems"
  /\ IF scenario[i] = "client_error"
     THEN /\ \E r \in RandomDraws :
               Settle(i, GetItemsClientError(GetItemsErrorType(r), delay[i]))
          /\ UNCHANGED sent
     ELSE IF scenario[i] = "server_error"
     THEN /\ Settle(i, GetItemsCatch(SimulatedMessage, delay[i]))
          /\ UNCHANGED sent
     ELSE /\ sent' = [sent EXCEPT ![i] = Append(@, ScanCommand)]
          /\ pc' = [pc EXCEPT ![i] = "scan"]
          /\ UNCHANGED result
  /\ UNCHANGED <<entry, event, op, scenario, delay, store, applied, clock>>

\* the scan succeeds
ScanResolve(i) ==
  /\ pc[i] = "scan"
  /\ \E items \in ScanResults(store, sent[i][Len(sent[i])]) :
       Settle(i, GetItemsSuccess(items, delay[i]))
  /\ UNCHANGED <<entry, event, op, scenario, delay, sent, store, applied, clock>>

\* the scan fails
ScanReject(i) ==
  /\ pc[i] = "scan"
  /\ \E msg \in StoreErrors : Settle(i, GetItemsCatch(msg, delay[i]))
  /\ UNCHANGED <<entry, event, op, scenario, delay, sent, store, applied, clock>>

\* createItem from the end of the delay to its return or put; the clock may
\* advance between the two new Date() calls
CreateItemResume(i) ==
  /\ pc[i] = "delay" /\ op[i] = "createItem"
  /\ \E r \in RandomDraws, tick \in {0, 1} :
       /\ clock + tick <= MaxClock
       /\ LET out == CreateItemBody(event[i], scenario[i], CreateItemErrorType(r),
                                    delay[i], clock, clock + tick)
          IN IF "result" \in DOMAIN out
             THEN /\ tick = 0
                  /\ Settle(i, out.result)
                  /\ UNCHANGED <<sent, clock>>
             ELSE /\ sent' = [sent EXCEPT ![i] = Append(@, out.send)]
                  /\ pc' = [pc EXCEPT ![i] = "put"]
                  /\ clock' = clock + tick
                  /\ UNCHANGED result
  /\ UNCHANGED <<entry, event, op, scenario, delay, store, applied>>

\* the table applies the put and createItem returns
PutResolve(i) ==
  /\ pc[i] = "put"
  /\ LET cmd == sent[i][Len(sent[i])]
     IN /\ PutAccepted(store, cmd)
        /\ store' = StorePut(store, cmd.Item)
        /\ applied' = Append(applied, cmd.Item)
        /\ Settle(i, CreateItemSuccess(cmd.Item, delay[i]))
  /\ UNCHANGED <<entry, event, op, scenario, delay, sent, clock>>

\* the put fails
PutReject(i) ==
  /\ pc[i] = "put"
  /\ LET cmd == sent[i][Len(sent[i])]
     IN \E msg \in StoreErrors \cup
                     (IF PutAccepted(store, cmd) THEN {} ELSE {ConditionFailed}) :
          Settle(i, CreateItemCatch(msg, delay[i]))
  /\ UNCHANGED <<entry, event, op, scenario, delay, sent, store, applied, clock>>

\* a millisecond passes
Tick ==
  /\ clock < MaxClock
  /\ clock' = clock + 1
  /\ UNCHANGED <<pc, entry, event, op, scenario, delay, sent, result, store, applied>>

\* one invocation, inputs from the full sets, any table to start from
Next ==
  \/ Handler(1, HandlerEvents, DelayDraws)
  \/ GetItems(1, ListEvents, DelayDraws)
  \/ CreateItem(1, DirectEvents, DelayDraws)
  \/ GetItemsResume(1)
  \/ ScanResolve(1)
  \/ ScanReject(1)
  \/ CreateItemResume(1)
  \/ PutResolve(1)
  \/ PutReject(1)
  \/ Tick

Spec == Init /\ [][Next]_vars

\* NumProcs invocations that interleave at every await
NextConc ==
  \/ \E i \in Procs :
       \/ Handler(i, ConcHandlerEvents, ConcDelayDraws)
       \/ GetItems(i, ListEvents, ConcDelayDraws)
       \/ CreateItem(i, ConcDirectEvents, ConcDelayDraws)
       \/ GetItemsResume(i)
       \/ ScanResolve(i)
       \/ ScanReject(i)
       \/ CreateItemResume(i)
       \/ PutResolve(i)
       \/ PutReject(i)
  \/ Tick

SpecConc == InitConc /\ [][NextConc]_vars

TypeOK ==
  /\ pc \in [Procs -> {"idle", "delay", "scan", "put", "done"}]
  /\ op \in [Procs -> {"none", "getItems", "createItem"}]
  /\ clock \in 0..MaxClock

(* ------------------------ reading the outcomes -------------------------- *)

Done(i) == pc[i] = "done"

Returned(i) == Done(i) /\ result[i].kind = "response"

Status(i) == result[i].statusCode

\* the object a client gets by parsing the body of the response
BodyOf(i) == result[i].body[2]

HasField(v, f) == v[1] = "obj" /\ f \in DOMAIN v[2]

\* the puts invocation i has sent
PutsOf(i) == {n \in DOMAIN sent[i] : sent[i][n].op = "Put"}

\* the body of the event parses, and not to null
BodyParses(ev) ==
  LET text == Or(ev.body, JsonText(EmptyObject))
  IN text[1] = "json" /\ text[2] # Null

ParsedBody(ev) == Or(ev.body, JsonText(EmptyObject))[2]

LacksIdOrName(ev) ==
  \/ ~Truthy(Field(ParsedBody(ev), "id"))
  \/ ~Truthy(Field(ParsedBody(ev), "name"))

(* ------------------------------ claims ---------------------------------- *)

\* C1: handler runs getItems exactly for GET /items and createItem exactly
\* for POST /items; for every other method and path it runs neither, sends
\* nothing to the table and returns 404 with success false and the path.
C1_Routing ==
  \A i \in Procs :
    entry[i] = "handler" =>
      LET m == ResolveMethod(event[i])
          p == ResolvePath(event[i])
      IN /\ (m = Str("GET") /\ p = Str("/items")) => op[i] = "getItems"
         /\ (m = Str("POST") /\ p = Str("/items")) => op[i] = "createItem"
         /\ ~(m \in {Str("GET"), Str("POST")} /\ p = Str("/items")) =>
              /\ op[i] = "none"
              /\ sent[i] = <<>>
              /\ Returned(i)
              /\ Status(i) = 404
              /\ Field(BodyOf(i), "success") = Bool(FALSE)
              /\ Field(BodyOf(i), "path") = p

C1_Witness ==
  \E i \in Procs :
    /\ entry[i] = "handler"
    /\ ResolveMethod(event[i]) = Str("DELETE")
    /\ ResolvePath(event[i]) = Str("/items")
    /\ Returned(i) /\ Status(i) = 404

\* C2 as stated: a createItem whose parsed body lacks a truthy id or name
\* returns 400 and sends no put, whichever scenario is drawn.
C2_Original ==
  \A i \in Procs :
    (Done(i) /\ op[i] = "createItem"
       /\ Or(event[i].body, JsonText(EmptyObject))[1] = "json"
       /\ LacksIdOrName(event[i])) =>
      /\ Returned(i) /\ Status(i) = 400
      /\ PutsOf(i) = {}

\* C2 amended: a createItem whose body parses to a value other than null and
\* lacks a truthy id or name never sends a put, whichever scenario is drawn;
\* it returns 400 when the success scenario is drawn and 400 or 422 when the
\* client_error scenario is drawn.
C2_Validation ==
  \A i \in Procs :
    (op[i] = "createItem" /\ BodyParses(event[i]) /\ LacksIdOrName(event[i])) =>
      /\ PutsOf(i) = {}
      /\ pc[i] # "put"
      /\ (Done(i) /\ scenario[i] = "success") => (Returned(i) /\ Status(i) = 400)
      /\ (Done(i) /\ scenario[i] = "client_error") =>
           (Returned(i) /\ Status(i) \in {400, 422})

C2_Witness ==
  \E i \in Procs :
    /\ Done(i) /\ op[i] = "createItem" /\ scenario[i] = "success"
    /\ BodyParses(event[i])
    /\ ~HasField(ParsedBody(event[i]), "id")
    /\ Truthy(Field(ParsedBody(event[i]), "name"))
    /\ Status(i) = 400

ScanFailed(i) == sent[i] # <<>> /\ Returned(i) /\ Status(i) = 500

ListShape(i) ==
  /\ Returned(i) /\ Status(i) = 200
  /\ Field(BodyOf(i), "success") = Bool(TRUE)
  /\ Field(BodyOf(i), "data")[1] = "arr"
  /\ Field(BodyOf(i), "count") = Num(Len(Field(BodyOf(i), "data")[2]))

\* C4 as stated: every getItems whose scan does not fail returns 200 with
\* success true, an array and its length, whatever scenario is drawn.
C4_Original ==
  \A i \in Procs :
    (Done(i) /\ op[i] = "getItems" /\ ~ScanFailed(i)) => ListShape(i)

\* C4 amended: every getItems for which the success scenario is drawn and
\* whose scan does not fail returns 200 with success true, a data array
\* (empty when the scan returns no items) and count equal to its length.
\* When client_error is drawn it returns 400 or 404 and when server_error is
\* drawn it throws, in both cases without scanning.
C4_ListSuccess ==
  \A i \in Procs :
    (Done(i) /\ op[i] = "getItems") =>
      /\ (scenario[i] = "success" /\ ~ScanFailed(i)) =>
           /\ ListShape(i)
           /\ Len(Field(BodyOf(i), "data")[2]) = Len(store)
      /\ scenario[i] = "client_error" =>
           (sent[i] = <<>> /\ Returned(i) /\ Status(i) \in {400, 404})
      /\ scenario[i] = "server_error" =>
           (sent[i] = <<>> /\ result[i].kind = "throw")

C4_Witness ==
  \E i \in Procs :
    /\ Done(i) /\ op[i] = "getItems" /\ scenario[i] = "success"
    /\ Len(store) = 2
    /\ Returned(i) /\ Status(i) = 200
    /\ Field(BodyOf(i), "count") = Num(2)

\* C5: in getItems and in createItem a drawn server_error ends in a
\* propagated failure, never in a returned response (a body that does not
\* parse is a genuine error and may return 500); no returned 500 carries the
\* simulated server error.
C5_SimulatedErrorPropagates ==
  \A i \in Procs :
    (Done(i) /\ op[i] \in {"getItems", "createItem"}) =>
      /\ (scenario[i] = "server_error" /\ BodyParses(event[i])) =>
           result[i].kind = "throw"
      /\ (Returned(i) /\ Status(i) = 500) =>
           Field(BodyOf(i), "message") # SimulatedMessage

WellFormed(i) ==
  /\ result[i].headers =
       [ContentType |-> "application/json", AccessControlAllowOrigin |-> "*"]
  /\ Field(BodyOf(i), "success")[1] = "bool"

\* C6 as stated: every returned failure has success false, an error label
\* and a message; every returned response has the two headers and a boolean
\* success.
C6_Original ==
  \A i \in Procs :
    Returned(i) =>
      /\ WellFormed(i)
      /\ Status(i) >= 400 =>
           /\ Field(BodyOf(i), "success") = Bool(FALSE)
           /\ HasField(BodyOf(i), "error")
           /\ HasField(BodyOf(i), "message")

\* the response of invocation i is the router's 404 or createItem's
\* validation 400
NotFoundOrValidation(i) ==
  \/ op[i] = "none"
  \/ op[i] = "createItem" /\ scenario[i] = "success" /\ Status(i) = 400

\* C6 amended: every returned response has the two headers and a boolean
\* success; every returned failure has success false and an error label; it
\* has a message too, except the router's 404 (which has the path instead)
\* and the validation 400 (which has the error label only).
C6_WellFormed ==
  \A i \in Procs :
    Returned(i) =>
      /\ WellFormed(i)
      /\ (Status(i) < 400) => Field(BodyOf(i), "success") = Bool(TRUE)
      /\ (Status(i) >= 400) =>
           /\ Field(BodyOf(i), "success") = Bool(FALSE)
           /\ HasField(BodyOf(i), "error")
           /\ HasField(BodyOf(i), "message") <=> ~NotFoundOrValidation(i)

C6_Witness ==
  \E i \in Procs :
    /\ Returned(i) /\ op[i] = "none" /\ Status(i) = 404
    /\ HasField(BodyOf(i), "error")
    /\ ~HasField(BodyOf(i), "message")

\* the item of the put of invocation i
ItemOf(i) == sent[i][Len(sent[i])].Item

Supplied(i, f) == Field(ParsedBody(event[i]), f)

Created(i) ==
  /\ Returned(i) /\ Status(i) = 201
  /\ Field(BodyOf(i), "data") = Obj(ItemOf(i))

\* C7 as stated: the record put has description "" and price 0 when they
\* are omitted and the supplied values, falsy ones too, when they are
\* supplied; id and name are copied and the status is 201.
C7_Original ==
  \A i \in Procs :
    (Done(i) /\ op[i] = "createItem" /\ PutsOf(i) # {}) =>
      /\ ItemOf(i).id = Supplied(i, "id")
      /\ ItemOf(i).name = Supplied(i, "name")
      /\ ItemOf(i).description =
           (IF HasField(ParsedBody(event[i]), "description")
            THEN Supplied(i, "description") ELSE Str(""))
      /\ ItemOf(i).price =
           (IF HasField(ParsedBody(event[i]), "price")
            THEN Supplied(i, "price") ELSE Num(0))
      /\ Created(i)

\* C7 amended: the record put has description "" when description is
\* omitted or supplied falsy and the supplied description when it is truthy,
\* price 0 when price is omitted or supplied falsy and the supplied price
\* when it is truthy; id and name are copied; when the put succeeds the
\* status is 201 and data is the record put, and when it fails the status
\* is 500.
C7_Defaults ==
  \A i \in Procs :
    (op[i] = "createItem" /\ PutsOf(i) # {}) =>
      /\ ItemOf(i).id = Supplied(i, "id")
      /\ ItemOf(i).name = Supplied(i, "name")
      /\ ItemOf(i).description =
           (IF Truthy(Supplied(i, "description"))
            THEN Supplied(i, "description") ELSE Str(""))
      /\ ItemOf(i).price =
           (IF Truthy(Supplied(i, "price"))
            THEN Supplied(i, "price") ELSE Num(0))
      /\ Done(i) =>
           \/ Created(i) /\ HasId(store, ItemOf(i).id)
           \/ Returned(i) /\ Status(i) = 500
                /\ Field(BodyOf(i), "message") \in StoreErrors

C7_Witness ==
  \E i \in Procs :
    /\ Done(i) /\ op[i] = "createItem" /\ Created(i)
    /\ ~HasField(ParsedBody(event[i]), "description")
    /\ Supplied(i, "price") = Num(9)
    /\ ItemOf(i).description = Str("") /\ ItemOf(i).price = Num(9)

\* C8: a create is never rejected because its id exists: a put that was
\* sent is accepted by the table whatever it holds, and ends in 201 unless
\* the table is unavailable; the table holds at most one record per id, and
\* that record is the item of the last put the table applied for that id.
C8_LastWriteWins ==
  /\ \A i \in Procs :
       /\ pc[i] = "put" => PutAccepted(store, sent[i][Len(sent[i])])
       /\ (Done(i) /\ PutsOf(i) # {}) =>
            \/ Created(i)
            \/ Returned(i) /\ Status(i) = 500
                 /\ Field(BodyOf(i), "message") \in StoreErrors
  /\ \A k1, k2 \in DOMAIN store : store[k1].id = store[k2].id => k1 = k2
  /\ \A n \in DOMAIN applied : HasId(store, applied[n].id)
  /\ \A k \in DOMAIN store :
       \E n \in DOMAIN applied :
         /\ applied[n] = store[k]
         /\ \A m \in DOMAIN applied : m > n => applied[m].id # store[k].id

C8_Witness ==
  \E i, j \in Procs :
    /\ i # j
    /\ Done(i) /\ Created(i) /\ Done(j) /\ Created(j)
    /\ ItemOf(i).id = ItemOf(j).id
    /\ ItemOf(i).name # ItemOf(j).name
    /\ applied = <<ItemOf(i), ItemOf(j)>>
    /\ store = <<ItemOf(j)>>

\* C9: every record createItem puts has createdAt equal to updatedAt.
C9_TimestampsEqual ==
  \A i \in Procs : \A n \in PutsOf(i) :
    sent[i][n].Item.createdAt = sent[i][n].Item.updatedAt

\* C10: a createItem whose body is a non-empty string that does not parse
\* returns 500 with success false and the parse error message, whichever
\* scenario is drawn, and sends no put; an absent or empty body is handled
\* as an object without id and name.
C10_ParseFailure ==
  \A i \in Procs :
    op[i] = "createItem" =>
      /\ event[i].body \in {BadText, Str(" ")} =>
           /\ sent[i] = <<>>
           /\ Done(i) =>
                /\ Returned(i) /\ Status(i) = 500
                /\ Field(BodyOf(i), "success") = Bool(FALSE)
                /\ Field(BodyOf(i), "message") = SyntaxErrorMessage
      /\ event[i].body \in {Undefined, Str("")} =>
           /\ sent[i] = <<>>
           /\ Done(i) =>
                /\ result[i].kind = "response" =>
                     Field(BodyOf(i), "message") # SyntaxErrorMessage
                /\ scenario[i] = "success" =>
                     result[i] = ValidationError(delay[i])

C10_Witness ==
  \E i \in Procs :
    /\ Done(i) /\ op[i] = "createItem" /\ event[i].body = BadText
    /\ scenario[i] = "client_error"
    /\ Returned(i) /\ Status(i) = 500

====
